---- MODULE Spec2Model ----
(***************************************************************************)
(* A model of waykeylight.py: mDNS discovery of Elgato Key Lights          *)
(* (KeyLightDiscovery), the tray's registry of lights and the popup's      *)
(* widgets (WayKeyLightTray, ControlPopup), the debounced brightness       *)
(* slider (LightControlWidget) and the API worker threads (APIWorker,      *)
(* KeyLight.get_status / set_state).                                       *)
(*                                                                         *)
(* Strings that the code parses are sequences of chunks: " " and "." are   *)
(* chunks of their own, every other chunk holds neither.  Python dicts are *)
(* insertion-ordered sequences of <<key, value>> pairs.  KeyLight objects  *)
(* live in a heap and are referred to by their index, since the discovery  *)
(* service, the tray, the widgets and the workers share them by reference. *)
(* None is the empty sequence, a present value v is <<v>>.                 *)
(***************************************************************************)
EXTENDS Integers, Sequences, FiniteSets, TLC

VARIABLES
    zeroconf,       \* KeyLightDiscovery.zeroconf / .browser: 0 is None, n > 0 the n-th instance
    disc_lights,    \* KeyLightDiscovery.lights: dict serial -> KeyLight
    shutdown,       \* KeyLightDiscovery.executor has been shut down
    work_queue,     \* the executor's queue of submitted _process_service_async calls
    pool,           \* the calls the executor's worker threads are running
    zc,             \* the zeroconf callback thread inside remove_service
    heap,           \* the KeyLight objects
    device,         \* the physical lights: what each one reports and holds
    signals,        \* light_discovered / light_removed emissions queued to the main thread
    tray_lights,    \* WayKeyLightTray.lights: dict serial -> KeyLight
    light_widgets,  \* ControlPopup.light_widgets: dict serial -> LightControlWidget
    workers,        \* the APIWorker threads that have been started
    results,        \* result_ready emissions queued to the main thread
    hist            \* bookkeeping of the calls made so far (not program state)

vars == <<zeroconf, disc_lights, shutdown, work_queue, pool, zc, heap, device,
          signals, tray_lights, light_widgets, workers, results, hist>>

discVars == <<zeroconf, disc_lights, shutdown, work_queue, pool, zc>>

----------------------------------------------------------------------------
(* Bounds of the model *)

MaxAnnounce == 2    \* add_service / update_service callbacks
MaxRemove   == 1    \* remove_service callbacks
MaxRefresh  == 1    \* refresh_lights calls
MaxIntents  == 2    \* slider moves by the user
MaxPower    == 1    \* checkbox clicks by the user
MaxPolls    == 2    \* update_timer expiries
MaxTurns    == 1    \* update_timer expiries that find the previous poll over
MaxCalls    == 2    \* direct calls of KeyLight.set_state

----------------------------------------------------------------------------
(* Program constants *)

max_workers      == 2       \* ThreadPoolExecutor(max_workers=2)
SliderMinimum    == 1       \* brightness_slider.setMinimum(1)
SliderMaximum    == 100     \* brightness_slider.setMaximum(100)
DefaultBrightness  == 50    \* KeyLight.brightness default, light.get("brightness", 50)
DefaultTemperature == 4500  \* KeyLight.temperature default, light.get("temperature", 4500)
MinParts         == 4       \* remove_service: len(parts) >= 4
SerialPart       == 3       \* remove_service: parts[3] (0-based)

None == <<>>
Some(v) == <<v>>

----------------------------------------------------------------------------
(* Python helpers *)

\* s[i] with a 0-based index i; the index is in range wherever the code uses it
Item(s, i) == s[i + 1]

RECURSIVE SplitAcc(_, _, _, _, _)
SplitAcc(s, sep, i, cur, acc) ==
    IF i > Len(s) THEN Append(acc, cur)
    ELSE IF s[i] = sep THEN SplitAcc(s, sep, i + 1, <<>>, Append(acc, cur))
    ELSE SplitAcc(s, sep, i + 1, Append(cur, s[i]), acc)

\* str.split(sep): always at least one part, empty parts are kept
Split(s, sep) == SplitAcc(s, sep, 1, <<>>, <<>>)

\* k in d
HasKey(d, k) == \E i \in 1..Len(d) : d[i][1] = k

\* d[k]
DictGet(d, k) == d[CHOOSE i \in 1..Len(d) : d[i][1] = k][2]

\* a dict that keeps an entry per assignment instead of one per key
DictSetAppending(d, k, v) == Append(d, <<k, v>>)

\* d[k] = v: the value of a present key is replaced in place, a new key is appended
DictSet(d, k, v) ==
    IF HasKey(d, k)
    THEN [i \in 1..Len(d) |-> IF d[i][1] = k THEN <<k, v>> ELSE d[i]]
    ELSE Append(d, <<k, v>>)

\* del d[k]
DictDel(d, k) == SelectSeq(d, LAMBDA e : e[1] # k)

----------------------------------------------------------------------------
(* The network: the announced services and the lights behind them *)

\* The services the mDNS responders announce.  Service 1 is the one of the
\* scenario: its name carries "1234", its id property the serial "ABC123".
\* Service 2 has a name whose 4th token starts with its serial.  Service 3
\* has no id property.  Service 4 is service 1 after the light has been given
\* another address (DHCP).
Services == <<
    [name |-> <<"Elgato", " ", "Key", " ", "Light", " ", "1234", ".", "_elg", ".", "_tcp", ".", "local", ".">>,
     id |-> <<"ABC123">>, md |-> <<"Elgato", " ", "Key", " ", "Light">>,
     addresses |-> << <<"192", ".", "168", ".", "1", ".", "50">> >>, port |-> 9123],
    [name |-> <<"Elgato", " ", "Key", " ", "Light", " ", "XYZ9", ".", "_elg", ".", "_tcp", ".", "local", ".">>,
     id |-> <<"XYZ9">>, md |-> <<"Elgato", " ", "Key", " ", "Light">>,
     addresses |-> << <<"192", ".", "168", ".", "1", ".", "51">> >>, port |-> 9123],
    [name |-> <<"Elgato", " ", "Key", " ", "Light", " ", "5678", ".", "_elg", ".", "_tcp", ".", "local", ".">>,
     id |-> <<>>, md |-> <<"Elgato", " ", "Key", " ", "Light">>,
     addresses |-> << <<"192", ".", "168", ".", "1", ".", "52">> >>, port |-> 9123],
    [name |-> <<"Elgato", " ", "Key", " ", "Light", " ", "1234", ".", "_elg", ".", "_tcp", ".", "local", ".">>,
     id |-> <<"ABC123">>, md |-> <<"Elgato", " ", "Key", " ", "Light">>,
     addresses |-> << <<"192", ".", "168", ".", "1", ".", "60">> >>, port |-> 9123] >>

ServiceIds == 1..Len(Services)

\* The services that announce a light again under the name of an earlier
\* service, and the services as first found
Readdressed == {s \in ServiceIds : \E r \in 1..(s - 1) : Services[r].name = Services[s].name}
FirstFound == ServiceIds \ Readdressed

\* Names a remove announcement can carry: the service names, and two names
\* with fewer than 4 space-separated tokens (2 and 3 tokens)
MalformedNames == {
    <<"Light", " ", "XYZ9", ".", "_elg", ".", "_tcp", ".", "local", ".">>,
    <<"Key", " ", "Light", " ", "XYZ9", ".", "_elg", ".", "_tcp", ".", "local", ".">> }

RemoveNames == {Services[s].name : s \in ServiceIds} \cup MalformedNames

\* What GET /elgato/settings and GET /elgato/accessory-info of each light
\* answer as displayName: light ABC123 has it in its settings, the others
\* only in their accessory info
SettingsName == [s \in ServiceIds |->
    IF Services[s].id = <<"ABC123">> THEN <<"Desk">> ELSE <<>>]
InfoName     == [s \in ServiceIds |->
    IF Services[s].id = <<"ABC123">> THEN <<>> ELSE <<"Shelf">>]

\* What a light can hold: the body of GET /elgato/lights, lights[0]
DeviceStates == {
    [on |-> 0, brightness |-> 30, temperature |-> 4000],
    [on |-> 1, brightness |-> 80, temperature |-> 5000] }

\* What the lights hold when the program starts
InitialDevice == [s \in ServiceIds |->
    IF Services[s].id = <<"ABC123">> THEN [on |-> 0, brightness |-> 30, temperature |-> 4000]
    ELSE [on |-> 1, brightness |-> 80, temperature |-> 5000]]

\* The device listening at an address
DeviceAt(ip) == CHOOSE s \in ServiceIds :
    Services[s].addresses # <<>> /\ Services[s].addresses[1] = ip

----------------------------------------------------------------------------
(* KeyLight *)

KeyLight(name, ip, port, serial_number) ==
    [name |-> name, ip |-> ip, port |-> port, serial_number |-> serial_number,
     is_on |-> FALSE, brightness |-> DefaultBrightness, temperature |-> DefaultTemperature]

\* get_status that looks for the fields beside "lights" instead of in
\* lights[0]: every get() falls back to its default
KeyLight_get_status_defaults(l, response) ==
    IF response # None
    THEN [l EXCEPT !.is_on = FALSE,
                   !.brightness = DefaultBrightness,
                   !.temperature = DefaultTemperature]
    ELSE l

\* KeyLight.get_status: response is None for a timeout, a connection error or
\* a status other than 200, and Some(lights[0]) otherwise
KeyLight_get_status(l, response) ==
    IF response # None
    THEN [l EXCEPT !.is_on = (response[1].on = 1),
                   !.brightness = response[1].brightness,
                   !.temperature = response[1].temperature]
    ELSE l

\* KeyLight.get_friendly_name: settings and info are None when the endpoint
\* fails and Some(displayName) otherwise; an empty displayName is not used
KeyLight_get_friendly_name(l, settings, info) ==
    IF settings # None /\ settings[1] # <<>> THEN settings[1]
    ELSE IF info # None /\ info[1] # <<>> THEN info[1]
    ELSE LET octets == Split(l.ip, ".")
         IN  l.name \o <<" (">> \o octets[Len(octets)] \o <<")">>

----------------------------------------------------------------------------
(* KeyLightDiscovery *)

\* remove_service's parse that takes the serial from the last token of any name
RemovedSerialLastPart(name) ==
    LET parts == Split(name, " ")
    IN  Some(Item(Split(parts[Len(parts)], "."), 0))

\* remove_service, lines 196-198: the serial a remove announcement names, None
\* when the name has fewer than 4 tokens
RemovedSerial(name) ==
    LET parts == Split(name, " ")
    IN  IF Len(parts) >= MinParts
        THEN Some(Item(Split(Item(parts, SerialPart), "."), 0))
        ELSE None

\* KeyLightDiscovery.stop followed by KeyLightDiscovery.start: the lights
\* are kept, the executor is shut down and never replaced
StopStart ==
    /\ zeroconf' = zeroconf + 1
    /\ shutdown' = TRUE
    /\ UNCHANGED <<disc_lights, work_queue, pool, zc>>

\* executor.submit(self._process_service_async, zeroconf, type_, name):
\* raises RuntimeError once the executor has been shut down
Submit(s) ==
    /\ zeroconf # 0
    /\ zc.pc = "idle"
    /\ hist.nAnnounce < MaxAnnounce
    /\ IF shutdown
       THEN /\ hist' = [hist EXCEPT !.nAnnounce = @ + 1,
                                    !.errors = @ \cup {"RuntimeError"}]
            /\ UNCHANGED work_queue
       ELSE /\ hist' = [hist EXCEPT !.nAnnounce = @ + 1]
            /\ work_queue' = Append(work_queue, s)
    /\ UNCHANGED <<zeroconf, disc_lights, shutdown, pool, zc, heap, device,
                   signals, tray_lights, light_widgets, workers, results>>

add_service(s) == Submit(s)

update_service(s) == Submit(s)

\* remove_service up to the del; the emit is the thread's next step
remove_service(name) ==
    /\ zeroconf # 0
    /\ zc.pc = "idle"
    /\ hist.nRemove < MaxRemove
    /\ hist' = [hist EXCEPT !.nRemove = @ + 1, !.removed_name = name]
    /\ LET serial == RemovedSerial(name)
       IN  IF serial # None /\ HasKey(disc_lights, serial[1])
           THEN /\ disc_lights' = DictDel(disc_lights, serial[1])
                /\ zc' = [pc |-> "emit", serial |-> serial[1]]
           ELSE UNCHANGED <<disc_lights, zc>>
    /\ UNCHANGED <<zeroconf, shutdown, work_queue, pool, heap, device,
                   signals, tray_lights, light_widgets, workers, results>>

\* remove_service, line 201: self.light_removed.emit(serial)
remove_service_emit ==
    /\ zc.pc = "emit"
    /\ signals' = Append(signals, <<"removed", zc.serial>>)
    /\ zc' = [pc |-> "idle", serial |-> <<>>]
    /\ UNCHANGED <<zeroconf, disc_lights, shutdown, work_queue, pool, heap, device,
                   tray_lights, light_widgets, workers, results, hist>>

\* A pool thread takes a call from the queue: _process_service_async resolves
\* the service (resolved is FALSE when get_service_info returns None), and
\* _process_service, lines 212-227, creates the KeyLight of a new serial
_process_service_async(resolved) ==
    /\ Cardinality(pool) < max_workers
    /\ work_queue # <<>>
    /\ work_queue' = Tail(work_queue)
    /\ LET s == Head(work_queue)
           info == Services[s]
           serial == info.id
       IN  IF resolved /\ info.addresses # <<>> /\ serial # <<>>
              /\ ~HasKey(disc_lights, serial)
           THEN /\ heap' = Append(heap, KeyLight(info.md, info.addresses[1], info.port, serial))
                /\ pool' = pool \cup {[pc |-> "enrich", light |-> Len(heap) + 1]}
           ELSE UNCHANGED <<heap, pool>>
    /\ UNCHANGED <<zeroconf, disc_lights, shutdown, zc, device,
                   signals, tray_lights, light_widgets, workers, results, hist>>

\* _process_service, lines 230-234: light.get_status() and
\* light.get_friendly_name().  The three requests of one enrichment meet the
\* same network: reachable is FALSE when the light answers none of them
_process_service_enrich(c, reachable) ==
    /\ c.pc = "enrich"
    /\ LET l == c.light
           d == DeviceAt(heap[l].ip)
           response == IF reachable THEN Some(device[d]) ELSE None
           settings == IF reachable THEN Some(SettingsName[d]) ELSE None
           info == IF reachable THEN Some(InfoName[d]) ELSE None
           got == KeyLight_get_status(heap[l], response)
       IN  /\ heap' = [heap EXCEPT ![l] =
                         [got EXCEPT !.name = KeyLight_get_friendly_name(got, settings, info)]]
           /\ hist' = [hist EXCEPT !.statusOk = IF reachable THEN @ \cup {l} ELSE @]
    /\ pool' = (pool \ {c}) \cup {[c EXCEPT !.pc = "store"]}
    /\ UNCHANGED <<zeroconf, disc_lights, shutdown, work_queue, zc, device,
                   signals, tray_lights, light_widgets, workers, results>>

\* _process_service, line 236: self.lights[serial] = light
_process_service_store(c) ==
    /\ c.pc = "store"
    /\ disc_lights' = DictSet(disc_lights, heap[c.light].serial_number, c.light)
    /\ pool' = (pool \ {c}) \cup {[c EXCEPT !.pc = "emit"]}
    /\ UNCHANGED <<zeroconf, shutdown, work_queue, zc, heap, device,
                   signals, tray_lights, light_widgets, workers, results, hist>>

\* _process_service, line 237: self.light_discovered.emit(light); the thread
\* is free for the next call
_process_service_emit(c) ==
    /\ c.pc = "emit"
    /\ signals' = Append(signals, <<"discovered", c.light>>)
    /\ pool' = pool \ {c}
    /\ UNCHANGED <<zeroconf, disc_lights, shutdown, work_queue, zc, heap, device,
                   tray_lights, light_widgets, workers, results, hist>>

----------------------------------------------------------------------------
(* LightControlWidget construction, ControlPopup, WayKeyLightTray registry *)

\* QSlider.setValue keeps the value within [minimum, maximum]
SliderBound(v) ==
    IF v < SliderMinimum THEN SliderMinimum
    ELSE IF v > SliderMaximum THEN SliderMaximum ELSE v

\* LightControlWidget.__init__ and setup_ui: the checkbox and the slider are
\* set from the light before their signals are connected
LightControlWidget(l) ==
    [light |-> l, pending_brightness |-> None, brightness_timer |-> FALSE,
     slider |-> SliderBound(heap[l].brightness), checkbox |-> heap[l].is_on]

\* ControlPopup.add_light: a serial that has a widget keeps it
add_light(widgets, l) ==
    IF ~HasKey(widgets, heap[l].serial_number)
    THEN DictSet(widgets, heap[l].serial_number, LightControlWidget(l))
    ELSE widgets

\* ControlPopup.remove_light
remove_light(widgets, serial) ==
    IF HasKey(widgets, serial) THEN DictDel(widgets, serial) ELSE widgets

\* WayKeyLightTray.on_light_discovered, delivered by the main thread's event loop
on_light_discovered ==
    /\ signals # <<>>
    /\ Head(signals)[1] = "discovered"
    /\ signals' = Tail(signals)
    /\ LET l == Head(signals)[2]
       IN  /\ tray_lights' = DictSet(tray_lights, heap[l].serial_number, l)
           /\ light_widgets' = add_light(light_widgets, l)
    /\ UNCHANGED <<discVars, heap, device, workers, results, hist>>

\* WayKeyLightTray.on_light_removed
on_light_removed ==
    /\ signals # <<>>
    /\ Head(signals)[1] = "removed"
    /\ signals' = Tail(signals)
    /\ LET serial == Head(signals)[2]
       IN  IF HasKey(tray_lights, serial)
           THEN /\ tray_lights' = DictDel(tray_lights, serial)
                /\ light_widgets' = remove_light(light_widgets, serial)
                /\ hist' = [hist EXCEPT !.removed = @ \cup {serial}]
           ELSE UNCHANGED <<tray_lights, light_widgets, hist>>
    /\ UNCHANGED <<discVars, heap, device, workers, results>>

\* WayKeyLightTray.refresh_lights: discovery.stop() then discovery.start()
refresh_lights ==
    /\ hist.nRefresh < MaxRefresh
    /\ StopStart
    /\ hist' = [hist EXCEPT !.nRefresh = @ + 1]
    /\ UNCHANGED <<heap, device, signals, tray_lights, light_widgets, workers, results>>

----------------------------------------------------------------------------
(* KeyLight.set_state *)

\* A PUT body in which a field the caller left None has the default of a new
\* KeyLight instead of the light's stored value
KeyLight_set_state_body_partial(l, on, brightness, temperature) ==
    [on |-> IF (IF on # None THEN on[1] ELSE FALSE) THEN 1 ELSE 0,
     brightness |-> IF brightness # None THEN brightness[1] ELSE DefaultBrightness,
     temperature |-> IF temperature # None THEN temperature[1] ELSE DefaultTemperature]

\* The body of PUT /elgato/lights: a field the caller gave (Some) has the
\* caller's value, a field left None has the light's stored value
KeyLight_set_state_body(l, on, brightness, temperature) ==
    [on |-> IF (IF on # None THEN on[1] ELSE l.is_on) THEN 1 ELSE 0,
     brightness |-> IF brightness # None THEN brightness[1] ELSE l.brightness,
     temperature |-> IF temperature # None THEN temperature[1] ELSE l.temperature]

\* set_state that stores the caller's values whatever the light answers
KeyLight_set_state_store_always(l, on, brightness, temperature, ok) ==
    [l EXCEPT !.is_on = IF on # None THEN on[1] ELSE @,
              !.brightness = IF brightness # None THEN brightness[1] ELSE @,
              !.temperature = IF temperature # None THEN temperature[1] ELSE @]

\* set_state, lines 135-143: the stored state after the response; ok is TRUE
\* for status 200 and FALSE for any other status, a timeout or an error
KeyLight_set_state_store(l, on, brightness, temperature, ok) ==
    IF ok
    THEN [l EXCEPT !.is_on = IF on # None THEN on[1] ELSE @,
                   !.brightness = IF brightness # None THEN brightness[1] ELSE @,
                   !.temperature = IF temperature # None THEN temperature[1] ELSE @]
    ELSE l

----------------------------------------------------------------------------
(* LightControlWidget *)

Widget(serial) == DictGet(light_widgets, serial)

\* APIWorker(light, operation, value) and start(); n tells the workers of one
\* light and operation apart: the click, the burst or the poll cycle that
\* started the worker
APIWorker(l, operation, value, n) ==
    [light |-> l, operation |-> operation, value |-> value, n |-> n,
     pc |-> "run", body |-> None, ok |-> FALSE, pending |-> None]

\* update_state that writes the slider through, pending or not, with the
\* slider's signals left connected: a changed value is a brightness intent
update_state_unguarded(w) ==
    IF SliderBound(heap'[w.light].brightness) # w.slider
    THEN [w EXCEPT !.checkbox = heap'[w.light].is_on,
                   !.slider = SliderBound(heap'[w.light].brightness),
                   !.pending_brightness = Some(SliderBound(heap'[w.light].brightness)),
                   !.brightness_timer = TRUE]
    ELSE [w EXCEPT !.checkbox = heap'[w.light].is_on]

\* LightControlWidget.update_state: the widget after showing the light's
\* state as the handler left it; the checkbox and the slider are set with
\* their signals blocked, the slider only while no brightness is pending
update_state(w) ==
    IF w.pending_brightness = None
    THEN [w EXCEPT !.checkbox = heap'[w.light].is_on,
                   !.slider = SliderBound(heap'[w.light].brightness)]
    ELSE [w EXCEPT !.checkbox = heap'[w.light].is_on]

\* The user clicks the checkbox: stateChanged calls on_power_changed, which
\* starts a 'power' worker
on_power_changed(serial) ==
    /\ hist.nPower < MaxPower
    /\ HasKey(light_widgets, serial)
    /\ LET w == Widget(serial)
           is_on == ~w.checkbox
       IN  /\ light_widgets' = DictSet(light_widgets, serial, [w EXCEPT !.checkbox = is_on])
           /\ workers' = workers \cup
                  {APIWorker(w.light, "power", is_on, hist.nPower + 1)}
    /\ hist' = [hist EXCEPT !.nPower = @ + 1]
    /\ UNCHANGED <<discVars, heap, device, signals, tray_lights, results>>

\* on_brightness_changed without the timer: every change starts a worker
on_brightness_changed_undebounced(serial, value) ==
    /\ hist.nIntents < MaxIntents
    /\ HasKey(light_widgets, serial)
    /\ LET w == Widget(serial)
       IN  /\ value # w.slider
           /\ light_widgets' = DictSet(light_widgets, serial, [w EXCEPT !.slider = value])
           /\ workers' = workers \cup
                  {APIWorker(w.light, "brightness", value, hist.nIntents + 1)}
           /\ hist' = [hist EXCEPT !.nIntents = @ + 1, !.last_intent = Some(value),
                  !.nBursts = IF w.brightness_timer THEN @ ELSE @ + 1]
    /\ UNCHANGED <<discVars, heap, device, signals, tray_lights, results>>

\* The user moves the slider to another value: valueChanged calls
\* on_brightness_changed, which keeps the value and restarts the 500 ms timer
on_brightness_changed(serial, value) ==
    /\ hist.nIntents < MaxIntents
    /\ HasKey(light_widgets, serial)
    /\ LET w == Widget(serial)
       IN  /\ value # w.slider
           /\ light_widgets' = DictSet(light_widgets, serial,
                  [w EXCEPT !.slider = value, !.pending_brightness = Some(value),
                            !.brightness_timer = TRUE])
           /\ hist' = [hist EXCEPT !.nIntents = @ + 1, !.last_intent = Some(value),
                  !.nBursts = IF w.brightness_timer THEN @ ELSE @ + 1]
    /\ UNCHANGED <<discVars, heap, device, signals, tray_lights, workers, results>>

\* The single-shot timer expires: apply_pending_brightness starts a
\* 'brightness' worker with the pending value and clears it
apply_pending_brightness(serial) ==
    /\ HasKey(light_widgets, serial)
    /\ LET w == Widget(serial)
       IN  /\ w.brightness_timer
           /\ IF w.pending_brightness # None
              THEN /\ workers' = workers \cup
                         {APIWorker(w.light, "brightness", w.pending_brightness[1],
                                    hist.nBursts)}
              ELSE UNCHANGED workers
           /\ light_widgets' = DictSet(light_widgets, serial,
                  [w EXCEPT !.pending_brightness = None, !.brightness_timer = FALSE])
    /\ UNCHANGED <<discVars, heap, device, signals, tray_lights, results, hist>>

\* LightControlWidget.on_api_result, delivered by the main thread's event loop
on_api_result ==
    /\ results # <<>>
    /\ Head(results).to = "widget"
    /\ results' = Tail(results)
    /\ LET r == Head(results)
       IN  IF HasKey(light_widgets, r.serial)
              /\ r.serial = heap[Widget(r.serial).light].serial_number
           THEN LET w == Widget(r.serial)
                IN  /\ heap' = [heap EXCEPT ![w.light].is_on = r.is_on,
                                            ![w.light].brightness = r.brightness]
                    /\ light_widgets' = DictSet(light_widgets, r.serial, update_state(w))
           ELSE UNCHANGED <<heap, light_widgets>>
    /\ UNCHANGED <<discVars, device, signals, tray_lights, workers, hist>>

----------------------------------------------------------------------------
(* APIWorker.run *)

Operations == {"power", "brightness"}

\* run, 'brightness' and 'power': set_state builds the body from the light as
\* stored now and sends the PUT
run_set_state_send(w) ==
    /\ w.pc = "run"
    /\ w.operation \in Operations
    /\ LET on == IF w.operation = "power" THEN Some(w.value) ELSE None
           brightness == IF w.operation = "brightness" THEN Some(w.value) ELSE None
           body == KeyLight_set_state_body(heap[w.light], on, brightness, None)
       IN  /\ workers' = (workers \ {w}) \cup {[w EXCEPT !.pc = "sent", !.body = Some(body)]}
           /\ hist' = [hist EXCEPT !.nCalls = IF w.operation = "brightness" THEN @ + 1 ELSE @]
    /\ UNCHANGED <<discVars, heap, device, signals, tray_lights, light_widgets, results>>

\* run, 'brightness' and 'power': the response arrives.  ok: the light took
\* the body and answered 200, set_state stores the given field and the worker
\* goes on to emit.  Not ok (another status, a timeout, an error): the light
\* keeps what it holds, set_state returns False and the worker ends
run_set_state_response(w, ok) ==
    /\ w.pc = "sent"
    /\ LET on == IF w.operation = "power" THEN Some(w.value) ELSE None
           brightness == IF w.operation = "brightness" THEN Some(w.value) ELSE None
       IN  heap' = [heap EXCEPT ![w.light] =
                       KeyLight_set_state_store(@, on, brightness, None, ok)]
    /\ device' = IF ok
                 THEN [device EXCEPT ![DeviceAt(heap[w.light].ip)] = w.body[1]]
                 ELSE device
    /\ IF ok
       THEN /\ workers' = (workers \ {w}) \cup {[w EXCEPT !.pc = "emit", !.ok = TRUE]}
            /\ UNCHANGED hist
       ELSE /\ workers' = workers \ {w}
            /\ hist' = [hist EXCEPT !.nFailed = @ + 1]
    /\ UNCHANGED <<discVars, signals, tray_lights, light_widgets, results>>

\* The brightness pending in the widget of a light, None when none is
PendingFor(l) ==
    IF \E i \in 1..Len(light_widgets) : light_widgets[i][2].light = l
    THEN light_widgets[CHOOSE i \in 1..Len(light_widgets) :
                           light_widgets[i][2].light = l][2].pending_brightness
    ELSE None

\* run, 'status': light.get_status(); reachable is FALSE when GET /lights
\* fails, and the worker goes on to emit either way.  The worker's pending
\* field is bookkeeping: what was pending in the light's widget at the read
run_get_status(w, reachable) ==
    /\ w.pc = "run"
    /\ w.operation = "status"
    /\ LET response == IF reachable THEN Some(device[DeviceAt(heap[w.light].ip)]) ELSE None
       IN  heap' = [heap EXCEPT ![w.light] = KeyLight_get_status(@, response)]
    /\ workers' = (workers \ {w}) \cup
           {[w EXCEPT !.pc = "emit", !.ok = reachable, !.pending = PendingFor(w.light)]}
    /\ UNCHANGED <<discVars, device, signals, tray_lights, light_widgets, results, hist>>

\* run: self.result_ready.emit(serial_number, is_on, brightness) with the
\* light as stored now; the thread ends
run_emit(w) ==
    /\ w.pc = "emit"
    /\ results' = Append(results,
           [to |-> IF w.operation = "status" THEN "tray" ELSE "widget",
            serial |-> heap[w.light].serial_number,
            is_on |-> heap[w.light].is_on, brightness |-> heap[w.light].brightness])
    /\ workers' = workers \ {w}
    /\ UNCHANGED <<discVars, heap, device, signals, tray_lights, light_widgets, hist>>

----------------------------------------------------------------------------
(* WayKeyLightTray: the reconciliation poll *)

\* update_light_states that polls the first light only
StatusWorkersFirstOnly ==
    IF tray_lights = <<>> THEN {}
    ELSE {APIWorker(tray_lights[1][2], "status", None, hist.nPolls + 1)}

\* update_light_states, lines 723-727: one 'status' worker per light
StatusWorkers ==
    {APIWorker(tray_lights[i][2], "status", None, hist.nPolls + 1) :
        i \in 1..Len(tray_lights)}

\* The update timer expires: WayKeyLightTray.update_light_states
update_light_states ==
    /\ hist.nPolls < MaxPolls
    /\ workers' = workers \cup StatusWorkers
    /\ hist' = [hist EXCEPT !.nPolls = @ + 1]
    /\ UNCHANGED <<discVars, heap, device, signals, tray_lights, light_widgets, results>>

\* popup.update_light(light)
update_light(widgets, l) ==
    IF HasKey(widgets, heap[l].serial_number)
    THEN DictSet(widgets, heap[l].serial_number,
                 update_state(DictGet(widgets, heap[l].serial_number)))
    ELSE widgets

\* WayKeyLightTray.on_status_update, delivered by the main thread's event loop
on_status_update ==
    /\ results # <<>>
    /\ Head(results).to = "tray"
    /\ results' = Tail(results)
    /\ LET r == Head(results)
       IN  IF HasKey(tray_lights, r.serial)
              /\ LET l == DictGet(tray_lights, r.serial)
                 IN  heap[l].is_on # r.is_on \/ heap[l].brightness # r.brightness
           THEN LET l == DictGet(tray_lights, r.serial)
                IN  /\ heap' = [heap EXCEPT ![l].is_on = r.is_on,
                                            ![l].brightness = r.brightness]
                    /\ light_widgets' = update_light(light_widgets, l)
           ELSE UNCHANGED <<heap, light_widgets>>
    /\ UNCHANGED <<discVars, device, signals, tray_lights, workers, hist>>

\* Another client changes what a light holds
device_changed(d, state) ==
    /\ \E i \in 1..Len(tray_lights) : DeviceAt(heap[tray_lights[i][2]].ip) = d
    /\ device[d] # state
    /\ device' = [device EXCEPT ![d] = state]
    /\ UNCHANGED <<discVars, heap, signals, tray_lights, light_widgets, workers, results, hist>>

----------------------------------------------------------------------------
(* The discovery side of the program: announcements, enrichment, registry *)

InitHist ==
    [nAnnounce |-> 0, nRemove |-> 0, removed_name |-> <<>>, removed |-> {},
     nRefresh |-> 0, statusOk |-> {}, errors |-> {},
     nIntents |-> 0, nPower |-> 0, nPolls |-> 0,
     last_intent |-> None, nBursts |-> 0, nCalls |-> 0, nFailed |-> 0,
     nDirect |-> 0, last_write |-> None, read_back |-> FALSE]

\* After WayKeyLightTray.__init__: discovery started, nothing announced yet
Init ==
    /\ zeroconf = 1
    /\ disc_lights = <<>>
    /\ shutdown = FALSE
    /\ work_queue = <<>>
    /\ pool = {}
    /\ zc = [pc |-> "idle", serial |-> <<>>]
    /\ heap = <<>>
    /\ device = InitialDevice
    /\ signals = <<>>
    /\ tray_lights = <<>>
    /\ light_widgets = <<>>
    /\ workers = {}
    /\ results = <<>>
    /\ hist = InitHist

Next ==
    \/ \E s \in FirstFound : add_service(s)
    \/ \E s \in FirstFound : update_service(s)
    \/ \E name \in RemoveNames : remove_service(name)
    \/ remove_service_emit
    \/ \E resolved \in BOOLEAN : _process_service_async(resolved)
    \/ \E c \in pool, reachable \in BOOLEAN : _process_service_enrich(c, reachable)
    \/ \E c \in pool : _process_service_store(c)
    \/ \E c \in pool : _process_service_emit(c)
    \/ on_light_discovered
    \/ on_light_removed
    \/ refresh_lights

Spec == Init /\ [][Next]_vars

\* Discovery while light ABC123 is given another address: the services are
\* found, any of them is announced as updated, none is removed
NextReaddress ==
    \/ \E s \in FirstFound : add_service(s)
    \/ \E s \in ServiceIds : update_service(s)
    \/ \E resolved \in BOOLEAN : _process_service_async(resolved)
    \/ \E c \in pool, reachable \in BOOLEAN : _process_service_enrich(c, reachable)
    \/ \E c \in pool : _process_service_store(c)
    \/ \E c \in pool : _process_service_emit(c)
    \/ on_light_discovered

SpecReaddress == Init /\ [][NextReaddress]_vars

\* Services 1 and 2 have been announced and the two pool threads are
\* processing them: each has created its KeyLight (line 222) and is about to
\* ask the light for its status and name
InitWithdraw ==
    /\ zeroconf = 1
    /\ disc_lights = <<>>
    /\ shutdown = FALSE
    /\ work_queue = <<>>
    /\ pool = {[pc |-> "enrich", light |-> 1], [pc |-> "enrich", light |-> 2]}
    /\ zc = [pc |-> "idle", serial |-> <<>>]
    /\ heap = [s \in 1..max_workers |->
                  KeyLight(Services[s].md, Services[s].addresses[1],
                           Services[s].port, Services[s].id)]
    /\ device = InitialDevice
    /\ signals = <<>>
    /\ tray_lights = <<>>
    /\ light_widgets = <<>>
    /\ workers = {}
    /\ results = <<>>
    /\ hist = [InitHist EXCEPT !.nAnnounce = max_workers]

\* From there services are only withdrawn: nothing is announced again
NextWithdraw ==
    \/ \E name \in RemoveNames : remove_service(name)
    \/ remove_service_emit
    \/ \E c \in pool, reachable \in BOOLEAN : _process_service_enrich(c, reachable)
    \/ \E c \in pool : _process_service_store(c)
    \/ \E c \in pool : _process_service_emit(c)
    \/ on_light_discovered
    \/ on_light_removed

SpecWithdraw == InitWithdraw /\ [][NextWithdraw]_vars

----------------------------------------------------------------------------
(* Properties of discovery and of the registry *)

\* The serial numbers of the entries of a dict of lights, in order
EntrySerials(d) == [i \in 1..Len(d) |-> heap[d[i][2]].serial_number]

NoTwoEntriesPerSerial(d) ==
    \A i, j \in 1..Len(d) :
        (d[i][1] = d[j][1] \/ EntrySerials(d)[i] = EntrySerials(d)[j]) => i = j

\* The main thread delivers a removed event / a discovered event
DeliversRemoved(serial) ==
    signals # <<>> /\ Head(signals) = <<"removed", serial>> /\ signals' = Tail(signals)

DeliversDiscovered(serial) ==
    /\ signals # <<>> /\ signals' = Tail(signals)
    /\ Head(signals)[1] = "discovered"
    /\ heap[Head(signals)[2]].serial_number = serial

AllSerials == {Services[s].id : s \in ServiceIds} \ {<<>>}

\* C2: whatever discovered and removed events are applied, neither the tray's
\* registry nor the discovery service's map holds two entries with the same
\* serial number; the delivery of a removed event leaves the serial unlisted,
\* and a serial that is not listed becomes listed only by the delivery of a
\* discovered event for it.
C2_RegistryOneEntryPerSerial ==
    /\ [](NoTwoEntriesPerSerial(tray_lights) /\ NoTwoEntriesPerSerial(disc_lights))
    /\ [][\A serial \in AllSerials :
            /\ DeliversRemoved(serial) => ~HasKey(tray_lights', serial)
            /\ (~HasKey(tray_lights, serial) /\ HasKey(tray_lights', serial))
                   => DeliversDiscovered(serial)]_vars

\* C2 witness: XYZ9 was listed and removed and is not listed, ABC123 is
C2_Witness ==
    /\ <<"XYZ9">> \in hist.removed
    /\ ~HasKey(tray_lights, <<"XYZ9">>)
    /\ HasKey(tray_lights, <<"ABC123">>)

\* C3: every light that is stored in the discovery service's map, announced
\* with a discovered event or held by the tray had a successful initial
\* get_status.
C3_PublishedOnlyAfterStatus ==
    /\ \A i \in 1..Len(disc_lights) : disc_lights[i][2] \in hist.statusOk
    /\ \A i \in 1..Len(signals) :
           signals[i][1] = "discovered" => signals[i][2] \in hist.statusOk
    /\ \A i \in 1..Len(tray_lights) : tray_lights[i][2] \in hist.statusOk

\* A remove announcement for this name is handled in this step
RemoveAnnounced(name) ==
    hist'.nRemove = hist.nRemove + 1 /\ hist'.removed_name = name

\* C4: a remove announcement carrying the service name of a tracked device
\* removes the device from the discovery service's map and leads to a removed
\* event with the device's serial number.
C4_RemoveByServiceName ==
    [][\A s \in ServiceIds :
          (RemoveAnnounced(Services[s].name) /\ HasKey(disc_lights, Services[s].id))
              => /\ ~HasKey(disc_lights', Services[s].id)
                 /\ zc'.pc = "emit" /\ zc'.serial = Services[s].id]_vars

\* C5: a remove announcement whose name has fewer than 4 space-separated
\* tokens changes no map, no light, emits nothing and raises nothing.
C5_MalformedRemoveIsNoOp ==
    [][\A name \in RemoveNames :
          (RemoveAnnounced(name) /\ Len(Split(name, " ")) < 4)
              => /\ UNCHANGED <<disc_lights, tray_lights, light_widgets, heap, signals, zc>>
                 /\ hist'.errors = hist.errors]_vars

\* C5 witness: a name of 2 tokens ending in XYZ9 was announced removed while
\* XYZ9 was tracked, and XYZ9 is tracked and listed
C5_Witness ==
    /\ hist.nRemove = 1
    /\ hist.removed_name = <<"Light", " ", "XYZ9", ".", "_elg", ".", "_tcp", ".", "local", ".">>
    /\ HasKey(disc_lights, <<"XYZ9">>)
    /\ HasKey(tray_lights, <<"XYZ9">>)

\* C9: after stop and start the discovery service tracks no device.
C9_RestartForgetsLights ==
    [][hist'.nRefresh = hist.nRefresh + 1 => disc_lights' = <<>>]_vars

\* C10: after a refresh an add or update announcement is accepted for
\* processing: the call is queued and nothing is raised.
C10_AnnouncementsAcceptedAfterRefresh ==
    [][(hist.nRefresh >= 1 /\ hist'.nAnnounce = hist.nAnnounce + 1)
          => /\ Len(work_queue') = Len(work_queue) + 1
             /\ hist'.errors = hist.errors]_vars

\* C11: with no removal, a discovered event is emitted for a serial at most
\* once, however many add and update announcements carry it and whichever
\* pool threads process them; and no discovered event is emitted for a
\* service without a serial.
C11_AnnouncedSerialPublishedOnce ==
    /\ [](\A i \in 1..Len(signals) :
              signals[i][1] = "discovered" => heap[signals[i][2]].serial_number # <<>>)
    /\ [][\A l \in 1..Len(heap) :
              (hist.nRemove = 0 /\ signals' = Append(signals, <<"discovered", l>>))
                  => /\ ~HasKey(tray_lights, heap[l].serial_number)
                     /\ \A i \in 1..Len(signals) :
                            signals[i][1] = "discovered"
                                => heap[signals[i][2]].serial_number
                                       # heap[l].serial_number]_vars

\* C12: when a pool thread processes a resolved announcement of a tracked
\* serial that carries another address than the tracked light has, the
\* tracked light has the announced address afterwards, and the serial still
\* has one entry.
C12_ReannouncedAddressUpdated ==
    [][\A s \in ServiceIds :
          (/\ work_queue # <<>> /\ Head(work_queue) = s
           /\ _process_service_async(TRUE)
           /\ HasKey(disc_lights, Services[s].id)
           /\ heap[DictGet(disc_lights, Services[s].id)].ip # Services[s].addresses[1])
              => /\ HasKey(disc_lights', Services[s].id)
                 /\ heap'[DictGet(disc_lights', Services[s].id)].ip
                        = Services[s].addresses[1]
                 /\ Len(disc_lights') = Len(disc_lights)]_vars

----------------------------------------------------------------------------
(* The control side of the program: two published lights, their widgets,
   the workers and the poll *)

\* Values the user moves a slider to
UserBrightness == {80, 95}

PublishedLight(s) ==
    LET l == KeyLight(Services[s].md, Services[s].addresses[1], Services[s].port, Services[s].id)
        got == KeyLight_get_status(l, Some(InitialDevice[s]))
    IN  [got EXCEPT !.name = KeyLight_get_friendly_name(got, Some(SettingsName[s]), Some(InfoName[s]))]

\* The state once the lights of these services have been announced,
\* enriched, published and delivered to the tray, and nothing else is going on
Published(ss) ==
    /\ zeroconf = 1
    /\ shutdown = FALSE
    /\ work_queue = <<>>
    /\ pool = {}
    /\ zc = [pc |-> "idle", serial |-> <<>>]
    /\ heap = [i \in 1..Len(ss) |-> PublishedLight(ss[i])]
    /\ device = InitialDevice
    /\ disc_lights = [i \in 1..Len(ss) |-> <<Services[ss[i]].id, i>>]
    /\ signals = <<>>
    /\ tray_lights = disc_lights
    /\ light_widgets = [i \in 1..Len(ss) |-> <<Services[ss[i]].id, LightControlWidget(i)>>]
    /\ workers = {}
    /\ results = <<>>
    /\ hist = [InitHist EXCEPT !.nAnnounce = Len(ss), !.statusOk = 1..Len(ss)]

\* Light 1 is the one known light
InitControl == Published(<<1>>)

\* The update timer's period is 10 s and a request gives up after 1 s: here
\* a poll finds the workers of the previous one ended and their results
\* delivered
update_light_states_in_turn ==
    /\ hist.nPolls < MaxTurns
    /\ \A w \in workers : w.operation # "status"
    /\ \A i \in 1..Len(results) : results[i].to # "tray"
    /\ update_light_states

NextControl ==
    \/ \E serial \in AllSerials, value \in UserBrightness : on_brightness_changed(serial, value)
    \/ \E serial \in AllSerials : apply_pending_brightness(serial)
    \/ on_api_result
    \/ \E w \in workers : run_set_state_send(w)
    \/ \E w \in workers, ok \in BOOLEAN : run_set_state_response(w, ok)
    \/ \E w \in workers, reachable \in BOOLEAN : run_get_status(w, reachable)
    \/ \E w \in workers : run_emit(w)
    \/ update_light_states_in_turn
    \/ on_status_update
    \/ \E d \in ServiceIds, state \in DeviceStates : device_changed(d, state)

SpecControl == InitControl /\ [][NextControl]_vars

\* Lights 1 and 2 are the known lights; only the poll and the lights act
InitPoll == Published(<<1, 2>>)

NextPoll ==
    \/ update_light_states
    \/ \E w \in workers, reachable \in BOOLEAN : run_get_status(w, reachable)
    \/ \E w \in workers : run_emit(w)
    \/ on_status_update
    \/ \E d \in ServiceIds, state \in DeviceStates : device_changed(d, state)

SpecPoll == InitPoll /\ [][NextPoll]_vars

----------------------------------------------------------------------------
(* KeyLight.set_state and KeyLight.get_status called with any arguments,
   against a light that holds its last successful write *)

\* The arguments a caller passes to set_state; None is an argument left out
CallerOn == {None, Some(TRUE), Some(FALSE)}
CallerBrightness == {None, Some(0), Some(1), Some(70), Some(100)}
CallerTemperature == {None, Some(5000)}

\* What a light can report: the states above and one with a brightness of 0
ReportedStates == DeviceStates \cup {[on |-> 1, brightness |-> 0, temperature |-> 4000]}

\* set_state, lines 120-133: the body is built from the arguments and the
\* light as stored now, and the PUT is sent.  One call is made at a time
set_state_send(l, on, brightness, temperature) ==
    /\ hist.nDirect < MaxCalls
    /\ workers = {}
    /\ workers' = {[APIWorker(l, "set_state", <<on, brightness, temperature>>,
                              hist.nDirect + 1)
                       EXCEPT !.pc = "sent",
                              !.body = Some(KeyLight_set_state_body(
                                                heap[l], on, brightness, temperature))]}
    /\ hist' = [hist EXCEPT !.nDirect = @ + 1, !.read_back = FALSE]
    /\ UNCHANGED <<discVars, heap, device, signals, tray_lights, light_widgets, results>>

\* set_state, lines 135-146: the response.  ok: the light holds the body and
\* has answered 200, and the given fields are stored; otherwise nothing is
\* written on either side
set_state_response(w, ok) ==
    /\ w.operation = "set_state"
    /\ w.pc = "sent"
    /\ heap' = [heap EXCEPT ![w.light] =
                    KeyLight_set_state_store(@, w.value[1], w.value[2], w.value[3], ok)]
    /\ device' = IF ok
                 THEN [device EXCEPT ![DeviceAt(heap[w.light].ip)] = w.body[1]]
                 ELSE device
    /\ workers' = workers \ {w}
    /\ hist' = [hist EXCEPT !.last_write =
                    IF ok THEN Some([args |-> w.value, body |-> w.body[1]]) ELSE @]
    /\ UNCHANGED <<discVars, signals, tray_lights, light_widgets, results>>

\* get_status called on a light; reachable is FALSE when GET /lights fails
get_status(l, reachable) ==
    /\ l \in 1..Len(heap)
    /\ LET response == IF reachable THEN Some(device[DeviceAt(heap[l].ip)]) ELSE None
       IN  heap' = [heap EXCEPT ![l] = KeyLight_get_status(@, response)]
    /\ hist' = [hist EXCEPT !.read_back =
                    IF reachable /\ hist.last_write # None /\ workers = {} THEN TRUE ELSE @]
    /\ UNCHANGED <<discVars, device, signals, tray_lights, light_widgets, workers, results>>

\* Another client writes to a light, or the light changes by itself
device_reports(d, state) ==
    /\ \E l \in 1..Len(heap) : DeviceAt(heap[l].ip) = d
    /\ device[d] # state
    /\ device' = [device EXCEPT ![d] = state]
    /\ hist' = [hist EXCEPT !.last_write = None, !.read_back = FALSE]
    /\ UNCHANGED <<discVars, heap, signals, tray_lights, light_widgets, workers, results>>

InitCalls == Published(<<1>>)

NextCalls ==
    \/ \E l \in 1..Len(heap), on \in CallerOn, brightness \in CallerBrightness,
          temperature \in CallerTemperature :
           set_state_send(l, on, brightness, temperature)
    \/ \E w \in workers, ok \in BOOLEAN : set_state_response(w, ok)
    \/ \E l \in 1..Len(heap), reachable \in BOOLEAN : get_status(l, reachable)
    \/ \E d \in ServiceIds, state \in ReportedStates : device_reports(d, state)

SpecCalls == InitCalls /\ [][NextCalls]_vars

----------------------------------------------------------------------------
(* The threads' accesses to one KeyLight, assignment by assignment: one light,
   its poll, and a click on its checkbox *)

\* run, 'status', get_status lines 77-81: the request and its response, kept
\* by the thread in body; a failed request leaves the light as stored
get_status_request(w, reachable) ==
    /\ w.pc = "run"
    /\ w.operation = "status"
    /\ workers' = (workers \ {w}) \cup
           {IF reachable
            THEN [w EXCEPT !.pc = "is_on",
                           !.body = Some(device[DeviceAt(heap[w.light].ip)])]
            ELSE [w EXCEPT !.pc = "emit"]}
    /\ UNCHANGED <<discVars, heap, device, signals, tray_lights, light_widgets,
                   results, hist>>

\* get_status lines 82-84: self.is_on, self.brightness and self.temperature
\* are assigned one after the other; another thread can run between two
\* assignments
get_status_assign(w) ==
    /\ w.pc \in {"is_on", "brightness", "temperature"}
    /\ heap' = [heap EXCEPT ![w.light] =
           IF w.pc = "is_on" THEN [@ EXCEPT !.is_on = (w.body[1].on = 1)]
           ELSE IF w.pc = "brightness" THEN [@ EXCEPT !.brightness = w.body[1].brightness]
           ELSE [@ EXCEPT !.temperature = w.body[1].temperature]]
    /\ workers' = (workers \ {w}) \cup
           {IF w.pc = "is_on" THEN [w EXCEPT !.pc = "brightness"]
            ELSE IF w.pc = "brightness" THEN [w EXCEPT !.pc = "temperature"]
            ELSE [w EXCEPT !.pc = "emit", !.ok = TRUE, !.body = None]}
    /\ UNCHANGED <<discVars, device, signals, tray_lights, light_widgets, results, hist>>

InitThreads == Published(<<1>>)

NextThreads ==
    \/ \E serial \in AllSerials : on_power_changed(serial)
    \/ \E w \in workers : run_set_state_send(w)
    \/ \E w \in workers, ok \in BOOLEAN : run_set_state_response(w, ok)
    \/ update_light_states_in_turn
    \/ \E w \in workers, reachable \in BOOLEAN : get_status_request(w, reachable)
    \/ \E w \in workers : get_status_assign(w)
    \/ \E w \in workers : run_emit(w)
    \/ on_api_result
    \/ on_status_update
    \/ \E d \in ServiceIds, state \in DeviceStates : device_changed(d, state)

SpecThreads == InitThreads /\ [][NextThreads]_vars

----------------------------------------------------------------------------
(* The commands of the user on one light: clicks on the checkbox and moves of
   the slider, with no poll and no other client of the light *)

InitCommands == Published(<<1>>)

NextCommands ==
    \/ \E serial \in AllSerials : on_power_changed(serial)
    \/ \E serial \in AllSerials, value \in UserBrightness : on_brightness_changed(serial, value)
    \/ \E serial \in AllSerials : apply_pending_brightness(serial)
    \/ \E w \in workers : run_set_state_send(w)
    \/ \E w \in workers, ok \in BOOLEAN : run_set_state_response(w, ok)
    \/ \E w \in workers : run_emit(w)
    \/ on_api_result

SpecCommands == InitCommands /\ [][NextCommands]_vars

----------------------------------------------------------------------------
(* Properties of the brightness slider, the workers and the poll *)

BrightnessWorkers(pcs) ==
    {w \in workers : w.operation = "brightness" /\ w.pc \in pcs}

TimersRunning ==
    {i \in 1..Len(light_widgets) : light_widgets[i][2].brightness_timer}

\* The timer of the i-th widget expires in this step
TimerFires(i) ==
    /\ i \in 1..Len(light_widgets) /\ i \in 1..Len(light_widgets')
    /\ light_widgets[i][2].brightness_timer
    /\ ~light_widgets'[i][2].brightness_timer

\* This step starts exactly one worker, a 'brightness' worker for the light
\* of the i-th widget carrying the user's last intent
StartsLastIntent(i) ==
    \E w \in workers' \ workers :
        /\ workers' = workers \cup {w}
        /\ w.operation = "brightness" /\ w.pc = "run"
        /\ w.light = light_widgets[i][2].light
        /\ Some(w.value) = hist.last_intent

\* C1: the intents that arrive before the timer started by the previous one
\* has fired form a burst.  Every burst whose timer has fired has exactly one
\* worker, started by the expiry with the burst's last value, and that worker
\* makes one set_state call carrying this value; a burst whose timer runs has
\* made no call.
C1_OneCallPerBurstWithLastValue ==
    /\ [](/\ hist.nBursts = hist.nCalls + Cardinality(BrightnessWorkers({"run"}))
                                        + Cardinality(TimersRunning)
          /\ \A w \in BrightnessWorkers({"sent", "emit"}) :
                 w.body # None /\ w.body[1].brightness = w.value)
    /\ [][/\ \A i \in 1..Len(light_widgets) : TimerFires(i) => StartsLastIntent(i)
          /\ (\A i \in 1..Len(light_widgets) : ~TimerFires(i))
                 => BrightnessWorkers({"run"})' \subseteq BrightnessWorkers({"run"})]_vars

\* C1 witness: two intents, 80 then 95, in one burst; one call was made, it
\* succeeded and the light holds 95
C1_Witness ==
    /\ hist.nIntents = 2 /\ hist.nBursts = 1 /\ hist.nCalls = 1
    /\ hist.last_intent = Some(95)
    /\ workers = {} /\ results = <<>>
    /\ device[1].brightness = 95
    /\ heap[1].brightness = 95

\* A status worker after its get_status
Read(w, ok) == [w EXCEPT !.pc = "emit", !.ok = ok, !.pending = PendingFor(w.light)]

\* C6: a poll starts a status worker for every light of the tray; a worker
\* whose get_status fails takes no other worker with it; and a worker whose
\* get_status succeeds stores what its light reports, whatever happened to
\* the other workers of the cycle.
C6_PollFailureIsIsolated ==
    [][/\ hist'.nPolls = hist.nPolls + 1
             => \A i \in 1..Len(tray_lights) :
                    \E w \in workers' \ workers :
                        /\ w.light = tray_lights[i][2]
                        /\ w.operation = "status" /\ w.pc = "run"
       /\ \A w \in workers :
              (w.operation = "status" /\ w.pc = "run" /\ w \notin workers')
                  => /\ workers' \ {Read(w, TRUE), Read(w, FALSE)} = workers \ {w}
                     /\ Read(w, TRUE) \in workers'
                          => LET d == device[DeviceAt(heap[w.light].ip)]
                             IN  /\ heap'[w.light].is_on = (d.on = 1)
                                 /\ heap'[w.light].brightness = d.brightness
                                 /\ heap'[w.light].temperature = d.temperature]_vars

\* C6 witness: in one cycle the worker of one light failed, the worker of
\* another light succeeded, and that light's stored state is the changed
\* state its device reports
C6_Witness ==
    \E a, b \in workers :
        /\ a.n = b.n /\ a.light # b.light
        /\ a.operation = "status" /\ a.pc = "emit" /\ ~a.ok
        /\ b.operation = "status" /\ b.pc = "emit" /\ b.ok
        /\ device[DeviceAt(heap[b.light].ip)] # InitialDevice[DeviceAt(heap[b.light].ip)]
        /\ heap[b.light].brightness = device[DeviceAt(heap[b.light].ip)].brightness
        /\ heap[b.light].is_on = (device[DeviceAt(heap[b.light].ip)].on = 1)

\* C7: while the timer of a widget runs its pending value is the user's last
\* intent; the pending value changes only by an intent of the user or by the
\* expiry of the timer, never by a status read or its delivery; and the worker
\* the expiry starts carries the last intent.
C7_PendingBrightnessSurvivesPoll ==
    /\ [](\A i \in 1..Len(light_widgets) :
              /\ light_widgets[i][2].brightness_timer
                     => light_widgets[i][2].pending_brightness = hist.last_intent
              /\ light_widgets[i][2].pending_brightness # None
                     => light_widgets[i][2].brightness_timer)
    /\ [][\A i \in 1..Len(light_widgets) :
              /\ (i \in 1..Len(light_widgets')
                  /\ light_widgets'[i][2].pending_brightness
                         # light_widgets[i][2].pending_brightness)
                     => \/ hist'.nIntents = hist.nIntents + 1
                        \/ TimerFires(i) /\ light_widgets'[i][2].pending_brightness = None
              /\ TimerFires(i) => StartsLastIntent(i)]_vars

\* C7 witness: 95 is pending with the timer running, and a status read has
\* stored another brightness, 80, in the light meanwhile
C7_Witness ==
    /\ \E w \in workers :
           /\ w.operation = "status" /\ w.pc = "emit" /\ w.ok
           /\ w.light = 1 /\ w.pending = Some(95)
    /\ light_widgets[1][2].pending_brightness = Some(95)
    /\ light_widgets[1][2].brightness_timer
    /\ heap[1].brightness = 80

\* A set_state call fails in this step: a worker that has sent ends without
\* going on to emit
SetStateFails(w) ==
    /\ w \in workers /\ w.pc = "sent"
    /\ workers' = workers \ {w}

\* C8: a failed set_state call leaves every stored light as it was, starts
\* no worker, makes no call and emits nothing; and there are never more
\* brightness calls than bursts of intents.
C8_FailedCallChangesNothing ==
    /\ [](hist.nCalls <= hist.nBursts)
    /\ [][\A w \in workers :
              SetStateFails(w)
                  => /\ heap' = heap
                     /\ hist'.nCalls = hist.nCalls
                     /\ results' = results
                     /\ light_widgets' = light_widgets]_vars

\* C8 witness: the one call, for 95, failed; the light is stored as before,
\* nothing is running and nothing is pending
C8_Witness ==
    /\ hist.nFailed = 1 /\ hist.nCalls = 1
    /\ hist.last_intent = Some(95)
    /\ workers = {} /\ results = <<>>
    /\ TimersRunning = {}
    /\ heap[1].brightness = 30
    /\ heap[1] = PublishedLight(1)

\* A brightness intent is pending for a light: the timer of its widget runs,
\* or a 'brightness' worker for it has not had its response
BrightnessPending(l) ==
    \/ \E i \in 1..Len(light_widgets) :
           light_widgets[i][2].light = l /\ light_widgets[i][2].brightness_timer
    \/ \E w \in workers :
           w.light = l /\ w.operation = "brightness" /\ w.pc \in {"run", "sent"}

\* C15: while a brightness intent is pending for a light, neither the
\* get_status of a status worker nor the delivery of a poll result changes
\* the light's stored brightness.
C15_PollKeepsBrightnessWhilePending ==
    [][\A l \in 1..Len(heap) :
          (/\ BrightnessPending(l)
           /\ \/ \E w \in workers, reachable \in BOOLEAN :
                     w.light = l /\ run_get_status(w, reachable)
              \/ on_status_update)
              => heap'[l].brightness = heap[l].brightness]_vars

\* C16: the delivery of a poll result for a light of the tray, with no
\* command pending, leaves the light stored with the reported power state
\* and brightness and its widget showing them.
C16_PollChangeReachesWidget ==
    [][\A i \in 1..Len(light_widgets) :
          (/\ on_status_update
           /\ Head(results).serial = light_widgets[i][1]
           /\ HasKey(tray_lights, light_widgets[i][1])
           /\ ~BrightnessPending(light_widgets[i][2].light)
           /\ \A w \in workers : w.operation \notin Operations)
              => LET r == Head(results)
                     l == DictGet(tray_lights, r.serial)
                 IN  /\ heap'[l].is_on = r.is_on
                     /\ heap'[l].brightness = r.brightness
                     /\ light_widgets'[i][2].checkbox = r.is_on
                     /\ light_widgets'[i][2].slider = SliderBound(r.brightness)]_vars

\* C17: no light has two 'brightness' workers, or two 'power' workers, whose
\* set_state call has not completed.
C17_OneCallInFlightPerAxis ==
    \A l \in 1..Len(heap), operation \in Operations :
        Cardinality({w \in workers : /\ w.light = l /\ w.operation = operation
                                     /\ w.pc \in {"run", "sent"}}) <= 1

\* C18: no light has two 'status' workers whose get_status has not completed.
C18_OnePollInFlightPerLight ==
    \A l \in 1..Len(heap) :
        Cardinality({w \in workers : /\ w.light = l /\ w.operation = "status"
                                     /\ w.pc = "run"}) <= 1

----------------------------------------------------------------------------
(* Properties of set_state and get_status *)

\* C13: every stored brightness and the brightness of every body sent to a
\* light is within the slider's range, 1 to 100.
C13_BrightnessWithinRange ==
    /\ \A l \in 1..Len(heap) : heap[l].brightness \in SliderMinimum..SliderMaximum
    /\ \A w \in workers :
           w.body # None => w.body[1].brightness \in SliderMinimum..SliderMaximum

\* C14: a get_status that succeeds after a successful set_state, with no
\* other write to the light in between, leaves the light stored with the
\* brightness and the power state the caller gave and with the whole state
\* that was sent, and does not change what the light holds.
C14_SetThenGetRoundTrip ==
    [][\A l \in 1..Len(heap) :
          (get_status(l, TRUE) /\ workers = {} /\ hist.last_write # None)
              => LET args == hist.last_write[1].args
                     body == hist.last_write[1].body
                 IN  /\ args[2] # None => heap'[l].brightness = args[2][1]
                     /\ args[1] # None => heap'[l].is_on = args[1][1]
                     /\ args[3] # None => heap'[l].temperature = args[3][1]
                     /\ heap'[l].brightness = body.brightness
                     /\ heap'[l].is_on = (body.on = 1)
                     /\ heap'[l].temperature = body.temperature
                     /\ device' = device]_vars

\* C14 witness: set_state(brightness=70) succeeded, get_status succeeded
\* after it, and the light is stored and holds 70
C14_Witness ==
    /\ hist.read_back /\ workers = {}
    /\ hist.last_write # None /\ hist.last_write[1].args[2] = Some(70)
    /\ heap[1].brightness = 70
    /\ device[1].brightness = 70

\* C19: the body of every set_state request has all three fields, a given
\* field with the caller's value and a field left out with the stored value
\* at the call; a 200 response changes the given fields of the stored light
\* to the caller's values and nothing else.
C19_CompleteBodyPartialStore ==
    [][/\ \A w \in workers' \ workers :
              w.operation = "set_state"
                  => LET l == heap[w.light]
                         sent == w.body[1]
                     IN  /\ w.body # None /\ DOMAIN sent = {"on", "brightness", "temperature"}
                         /\ sent.on = IF w.value[1] # None
                                      THEN (IF w.value[1][1] THEN 1 ELSE 0)
                                      ELSE (IF l.is_on THEN 1 ELSE 0)
                         /\ sent.brightness = IF w.value[2] # None
                                              THEN w.value[2][1] ELSE l.brightness
                         /\ sent.temperature = IF w.value[3] # None
                                               THEN w.value[3][1] ELSE l.temperature
       /\ \A w \in workers :
              set_state_response(w, TRUE)
                  => /\ \A l \in 1..Len(heap) : l # w.light => heap'[l] = heap[l]
                     /\ heap'[w.light] =
                            [heap[w.light] EXCEPT
                                !.is_on = IF w.value[1] # None THEN w.value[1][1] ELSE @,
                                !.brightness = IF w.value[2] # None THEN w.value[2][1] ELSE @,
                                !.temperature = IF w.value[3] # None THEN w.value[3][1] ELSE @]]_vars

\* C19 witness: after set_state(on=True, temperature=5000) the call
\* set_state(brightness=70) sent (1, 70, 5000) and succeeded, and the light is
\* stored on at 70 and 5000
C19_Witness ==
    /\ hist.nDirect = 2 /\ workers = {} /\ ~hist.read_back
    /\ hist.last_write = Some([args |-> <<None, Some(70), None>>,
                               body |-> [on |-> 1, brightness |-> 70, temperature |-> 5000]])
    /\ heap[1] = [PublishedLight(1) EXCEPT !.is_on = TRUE, !.brightness = 70,
                                           !.temperature = 5000]

\* The light's brightness and temperature are those of one state a light
\* can hold
WholeState(brightness, temperature) ==
    \E s \in DeviceStates : s.brightness = brightness /\ s.temperature = temperature

\* C20: where only the poll writes brightness and temperature, and writes
\* them together, every brightness and temperature a thread reads from a
\* light to build a request are those of one state the light held.
C20_NoTornRead ==
    \A w \in workers :
        (w.operation \in Operations /\ w.body # None)
            => WholeState(w.body[1].brightness, w.body[1].temperature)

----------------------------------------------------------------------------
(* Properties of the commands *)

\* C21: a 'power' or 'brightness' worker whose set_state call fails leaves
\* something for the main thread: a result is queued, or a widget changes.
C21_FailedCommandIsNotified ==
    [][\A w \in workers :
          (w.operation \in Operations /\ SetStateFails(w))
              => results' # results \/ light_widgets' # light_widgets]_vars

\* No timer runs, no worker is left, every result has been delivered, and no
\* set_state call has failed
CommandsSettled ==
    /\ TimersRunning = {}
    /\ workers = {}
    /\ results = <<>>
    /\ hist.nFailed = 0

\* C22: once the commands have settled, every light of the tray is stored
\* with the power state and the brightness its device holds.
C22_SettledStateMatchesDevice ==
    CommandsSettled
        => \A i \in 1..Len(tray_lights) :
               LET l == heap[tray_lights[i][2]]
                   d == device[DeviceAt(l.ip)]
               IN  l.is_on = (d.on = 1) /\ l.brightness = d.brightness

----------------------------------------------------------------------------
(* Properties of discovery racing with removal, and of the popup *)

\* The serial numbers a dict of lights or of widgets has as keys
Keys(d) == {d[i][1] : i \in 1..Len(d)}

\* Every discovered and removed event has been delivered, and no thread is
\* between its change of the discovery service's map and its emit
EventsDelivered ==
    /\ signals = <<>>
    /\ zc.pc = "idle"
    /\ \A c \in pool : c.pc # "emit"

\* C23: once every event has been delivered, the tray holds the serial
\* numbers the discovery service tracks.
C23_TrayMatchesDiscovery ==
    EventsDelivered => Keys(tray_lights) = Keys(disc_lights)

\* C24: where nothing is announced after the enrichments have begun, a
\* serial named by a remove announcement is neither tracked by the discovery
\* service nor held by the tray nor on its way to the tray once no pool
\* thread is processing it and the events have been delivered.
C24_WithdrawnWhileEnrichingStaysUnknown ==
    LET serial == RemovedSerial(hist.removed_name)
    IN  (/\ hist.nRemove >= 1 /\ serial # None
         /\ \A c \in pool : heap[c.light].serial_number # serial[1]
         /\ EventsDelivered)
            => /\ ~HasKey(disc_lights, serial[1])
               /\ ~HasKey(tray_lights, serial[1])

\* C25: the popup has a widget for exactly the serial numbers the tray
\* holds, and the widget of a serial controls the KeyLight object the tray
\* holds, and polls, for it.
C25_WidgetsMatchTray ==
    /\ Keys(light_widgets) = Keys(tray_lights)
    /\ \A serial \in Keys(light_widgets) \cap Keys(tray_lights) :
           Widget(serial).light = DictGet(tray_lights, serial)

====
